---- MODULE Spec2Model ----
(***************************************************************************)
(* Model of tm-zora-manager: the two unattended posting scripts             *)
(*   auto-post-daily.ts      (tweet / image pipeline)                       *)
(*   youtube-shorts-zora.ts  (video pipeline, src/unnamed/part_000)         *)
(* and the persisted deduplication ledger both of them keep.                *)
(*                                                                          *)
(* One behaviour is the history of one deployed script (variable script):   *)
(* a sequence of runs of main(), every await of main() being one step.      *)
(* External collaborators (source platform, yt-dlp, Zora, the file system)  *)
(* are nondeterministic: every outcome the code has a branch for can occur. *)
(***************************************************************************)
EXTENDS Integers, Sequences, FiniteSets, TLC

VARIABLES
    script,   \* "tweet" | "video": which script this deployment runs
    ledger,   \* posted-tweets.json / posted-videos.json: NoFile, Corrupt or Json(records)
    disk,     \* files in downloads/: set of <<videoId, suffix>>
    minted,   \* ids for which createCoin has succeeded in a latest-mode run (chain state)
    run,      \* per run of main(): its locals and its position
    store,    \* last operation applied to the ledger by the store-level specification
    content,  \* last call of the text functions (cleanAndOptimizeContent, summarizeThread)
    thread,   \* last call of the thread functions (isPartOfThread, getThreadFromTimeline, ...)
    flow,     \* one run of main() seen as its external calls: started, in flight, settled
    source    \* last call of getLatestImagePost on a timeline response

vars == <<script, ledger, disk, minted, run, store, content, thread, flow, source>>

----------------------------------------------------------------------------
(* Bounds of the model *)

\* source item ids the tweet timeline can hold
MaxTweetId == 3
\* source item ids the video channel can return
MaxVideoId == 1
\* length of the fetched timeline window (max_results is 20 in the source)
MaxTimeline == 2
\* wall-clock readings 0..MaxClock; the clock is not assumed monotonic
MaxClock == 1
\* ids used when record/load are exercised on their own
MaxStoreId == 3
\* ledger capacity K of the tweet script (1000 in the source), scaled down
KeepTweets == 2
\* ledger capacity K of the video script (100 in the source), scaled down
KeepVideos == 1

\* length of a tweet text, in tokens
MaxText == 6

\* length of the timeline window the thread functions are given
MaxWindow == 3
\* created_at readings 0..MaxTime
MaxTime == 1

TweetIds == 1..MaxTweetId
VideoIds == 1..MaxVideoId
StoreIds == 1..MaxStoreId
Clock == 0..MaxClock
Runs == {1, 2}

\* the ledger file: absent, present but not parsable, or a JSON array of records
NoFile == [kind |-> "absent", records |-> <<>>]
Corrupt == [kind |-> "corrupt", records |-> <<>>]
Json(records) == [kind |-> "json", records |-> records]
\* process.argv[2] when the script is started without an argument
NoArg == 0
\* targetVideo / post before the fetch has assigned it
NoId == 0
NoPath == "none"
NoTx == "none"
Tx == "tx"
\* formatStrategies.length
NumStrategies == 5
\* file names in downloads/ are <videoId>.<suffix>; webm stands for every video
\* file the directory scan accepts that is not <videoId>.mp4
Suffixes == {"mp4", "webm", "jpg"}
VideoSuffixes == {"mp4", "webm"}

\* records.length > 1000 / records.length > 100
Keep(s) == IF s = "tweet" THEN KeepTweets ELSE KeepVideos

----------------------------------------------------------------------------
(* DeduplicationStore: loadPostedTweets / loadPostedVideos, savePostedTweet / savePostedVideo *)

\* fs.readFile + JSON.parse throw: no file, or a file that does not parse
ReadThrows(file) == file.kind # "json"

\* the ids a parsable ledger file holds
LedgerIds(file) == {file.records[i].id : i \in DOMAIN file.records}

loadPosted_Seeded(file) ==
    IF file.kind # "json" THEN {1} ELSE {file.records[i].id : i \in DOMAIN file.records}

\* loadPostedTweets / loadPostedVideos: the id set, the empty set when the read throws
loadPosted(file) ==
    IF ReadThrows(file) THEN {} ELSE {file.records[i].id : i \in DOMAIN file.records}

\* the read half of savePosted*: the parsed array, or the initial [] when the read throws
SaveRead(file) == IF ReadThrows(file) THEN <<>> ELSE file.records

\* records.slice(-k)
SliceLast(records, k) ==
    IF Len(records) <= k THEN records
    ELSE SubSeq(records, Len(records) - k + 1, Len(records))

PushAndTrim_KeepFirst(records, rec, k) ==
    LET r == Append(records, rec) IN IF Len(r) > k THEN SubSeq(r, 1, k) ELSE r

\* insertion position when the array is kept ordered by postedAt
RECURSIVE InsertByTime(_, _)
InsertByTime(records, rec) ==
    IF records = <<>> THEN <<rec>>
    ELSE IF Head(records).postedAt > rec.postedAt THEN <<rec>> \o records
    ELSE <<Head(records)>> \o InsertByTime(Tail(records), rec)

PushAndTrim_ByTime(records, rec, k) ==
    LET r == InsertByTime(records, rec) IN IF Len(r) > k THEN SliceLast(r, k) ELSE r

\* records.push(record); if (records.length > K) records = records.slice(-K)
PushAndTrim(records, rec, k) ==
    LET r == Append(records, rec) IN IF Len(r) > k THEN SliceLast(r, k) ELSE r

\* fs.writeFile: it succeeds, it throws before touching the file, or it throws
\* after truncating it (the file is opened with O_TRUNC and then written)
WriteOutcomes == {"ok", "error", "truncated"}

WriteFile_Merge(file, records, outcome) ==
    LET Fresh(x) == \A i \in DOMAIN records : records[i].id # x.id
    IN  CASE outcome = "ok" -> Json(SelectSeq(file.records, Fresh) \o records)
          [] outcome = "error" -> file
          [] OTHER -> Corrupt

WriteFile(file, records, outcome) ==
    CASE outcome = "ok" -> Json(records)
      [] outcome = "error" -> file
      [] OTHER -> Corrupt

\* savePostedTweet / savePostedVideo as one call: read, push, trim, write; a throw is swallowed
savePosted(file, rec, k, outcome) ==
    WriteFile(file, PushAndTrim(SaveRead(file), rec, k), outcome)

Record(id, t) == [id |-> id, postedAt |-> t]

----------------------------------------------------------------------------
(* Source platform *)

\* one item of the fetched timeline: its id, and whether it passes the content
\* filters of getLatestImagePost (not a reply to another user, not a retweet,
\* not a quote, has a photo with a url, has no video or GIF)
Tweets == [id : TweetIds, valid : BOOLEAN]

Distinct(seq) == \A i, j \in DOMAIN seq : i # j => seq[i].id # seq[j].id

Timelines ==
    {tl \in UNION {[1..n -> Tweets] : n \in 0..MaxTimeline} : Distinct(tl)}

\* the items of the window that pass the content filters
Candidates(timeline) == {timeline[i].id : i \in {j \in DOMAIN timeline : timeline[j].valid}}

getLatestImagePost_IgnorePosted(alreadyPosted, timeline) ==
    LET ok == {i \in DOMAIN timeline : timeline[i].valid}
    IN  IF ok = {} THEN 0 ELSE CHOOSE i \in ok : \A j \in ok : i <= j

\* the for loop of getLatestImagePost: index of the first item that is not
\* already posted and passes the filters, 0 when the loop falls through
getLatestImagePost(alreadyPosted, timeline) ==
    LET ok == {i \in DOMAIN timeline :
                   timeline[i].id \notin alreadyPosted /\ timeline[i].valid}
    IN  IF ok = {} THEN 0 ELSE CHOOSE i \in ok : \A j \in ok : i <= j

\* what the filters of getLatestImagePost read of an item: how its text
\* begins, the types in referenced_tweets, whether attachments.media_keys is
\* there, and the media of the response its keys select (tweetMedia), in the
\* order of includes.media. A photo comes with or without a url.
Plain == [prefix |-> "plain", refs |-> {}, keys |-> TRUE, media |-> <<"photo">>]

\* the items the filters tell apart
PostKinds ==
    { Plain,
      [Plain EXCEPT !.prefix = "@tokenmetricsinc", !.refs = {"replied_to"}],
      [Plain EXCEPT !.prefix = "@other", !.refs = {"replied_to"}],
      [Plain EXCEPT !.prefix = "RT @"],
      [Plain EXCEPT !.refs = {"retweeted"}],
      [Plain EXCEPT !.refs = {"quoted"}],
      [Plain EXCEPT !.keys = FALSE, !.media = <<>>],
      [Plain EXCEPT !.media = <<>>],
      [Plain EXCEPT !.media = <<"video">>],
      [Plain EXCEPT !.media = <<"photo", "animated_gif">>],
      [Plain EXCEPT !.media = <<"photo_nourl">>],
      [Plain EXCEPT !.media = <<"photo_nourl", "photo">>],
      [Plain EXCEPT !.media = <<"photo", "photo">>] }

Posts == [id : TweetIds, kind : PostKinds]

PostTimelines ==
    {tl \in UNION {[1..n -> Posts] : n \in 0..MaxTimeline} : Distinct(tl)}

\* tweetMedia.some(media => media.type === 'video' || media.type === 'animated_gif')
hasVideo(tweetMedia) ==
    \E i \in DOMAIN tweetMedia : tweetMedia[i] \in {"video", "animated_gif"}

\* tweetMedia.find(media => media.type === 'photo'): its position, 0 for undefined
imageMedia(tweetMedia) ==
    LET photos == {i \in DOMAIN tweetMedia : tweetMedia[i] \in {"photo", "photo_nourl"}}
    IN  IF photos = {} THEN 0 ELSE CHOOSE i \in photos : \A j \in photos : i <= j

\* the body of the loop after the already-posted check: the continue an item
\* takes, "none" when it reaches the return
Skip(kind) ==
    IF kind.prefix = "@other" THEN "reply"
    ELSE IF kind.prefix = "RT @" \/ "retweeted" \in kind.refs THEN "retweet"
    ELSE IF "quoted" \in kind.refs THEN "quote"
    ELSE IF ~kind.keys THEN "nomedia"
    ELSE IF hasVideo(kind.media) THEN "video"
    ELSE IF imageMedia(kind.media) = 0
            \/ kind.media[imageMedia(kind.media)] # "photo" THEN "nophoto"
    ELSE "none"

\* the timeline the loop walks, each item with the verdict of the filters
Filtered(posts) ==
    [i \in DOMAIN posts |-> [id |-> posts[i].id, valid |-> Skip(posts[i].kind) = "none"]]

getLatestShorts_NoDedup(alreadyPosted, videoId) == FALSE

\* getLatestShorts: does the already-posted check throw for the latest video
getLatestShorts(alreadyPosted, videoId) == videoId \in alreadyPosted

\* main, targeted mode: if (alreadyPosted.has(specificVideoId)) warn and continue
WarnAlreadyPosted(alreadyPosted, videoId) == videoId \in alreadyPosted

----------------------------------------------------------------------------
(* MediaAcquirer: downloadShortVideo / tryDownloadWithFormat *)

FilesOf(d, id) == {s \in Suffixes : <<id, s>> \in d}

Reject == [ok |-> FALSE, videoPath |-> NoPath, thumbnailPath |-> NoPath]
Resolve(v, t) == [ok |-> TRUE, videoPath |-> v, thumbnailPath |-> t]

tryDownloadWithFormat_IgnoreExitCode(id, d, code) ==
    LET vs == FilesOf(d, id) \cap VideoSuffixes
        ts == FilesOf(d, id) \cap {"jpg"}
    IN  IF "mp4" \in vs /\ ts # {} THEN {Resolve("mp4", "jpg")}
        ELSE IF vs # {} /\ ts # {} THEN {Resolve(v, t) : v \in vs, t \in ts}
        ELSE {Reject}

\* the 'close' handler of tryDownloadWithFormat: the results it can settle with,
\* given the exit code and the directory after the downloader ran (files.find
\* takes the first match in directory order, which the file system chooses)
tryDownloadWithFormat(id, d, code) ==
    IF code # 0 THEN {Reject}
    ELSE IF "mp4" \in FilesOf(d, id) /\ "jpg" \in FilesOf(d, id)
         THEN {Resolve("mp4", "jpg")}
         ELSE LET vs == FilesOf(d, id) \cap VideoSuffixes
                  ts == FilesOf(d, id) \cap {"jpg"}
              IN  IF vs # {} /\ ts # {}
                  THEN {Resolve(v, t) : v \in vs, t \in ts}
                  ELSE {Reject}

----------------------------------------------------------------------------
(* main() of both scripts *)

\* no text function and no thread function has been called
NoContent == [fn |-> "none", texts |-> <<>>, ai |-> [kind |-> "none", reply |-> <<>>],
              out |-> <<>>]
NoThread == [fn |-> "none", tweet |-> [id |-> 0], window |-> <<>>, out |-> <<>>,
             member |-> FALSE, firstTweetId |-> 0, summarized |-> <<>>,
             summarizeCalls |-> 0, normalizeCalls |-> 0, normalized |-> "none"]

\* getLatestImagePost has not been called
NoSource == [fn |-> "none", alreadyPosted |-> {}, posts |-> <<>>, out |-> 0,
             threw |-> FALSE]

\* main() has not been entered
NoFlow == [targeted |-> FALSE, isThread |-> FALSE, pc |-> "none", waiting |-> FALSE,
           strat |-> 1, inflight |-> {}, calls |-> <<>>, steps |-> <<>>]

IdleRun ==
    [pc |-> "idle", arg |-> NoArg, alreadyPosted |-> {}, target |-> NoId,
     strat |-> 1, videoPath |-> NoPath, thumbnailPath |-> NoPath, tx |-> NoTx,
     warned |-> FALSE, records |-> <<>>, err |-> "none", seen |-> {},
     dlCalls |-> 0, mintCalls |-> 0, saveCalls |-> 0, acquired |-> {}, startLedger |-> NoFile,
     saved |-> FALSE, logged |-> <<>>, exit |-> "running"]

Terminal == {"idle", "done", "exited"}

Init ==
    /\ script \in {"tweet", "video"}
    /\ ledger = NoFile
    /\ disk = {}
    /\ minted = {}
    /\ run = [r \in Runs |-> IdleRun]
    /\ store = [op |-> "none", id |-> NoId, outcome |-> "none", dropped |-> <<>>,
                loaded |-> {}]
    /\ content = NoContent
    /\ thread = NoThread
    /\ flow = NoFlow
    /\ source = NoSource

Set(r, rec) == run' = [run EXCEPT ![r] = rec]

\* a throw inside the try block of main: control goes to its catch
Throw(r, reason) == Set(r, [run[r] EXCEPT !.pc = "fail", !.err = reason])

\* the script is started: with no argument, or (video script) with a video id
Start(r) ==
    /\ run[r].pc \in Terminal
    /\ \A q \in Runs \ {r} : run[q].pc \in Terminal
    /\ \E a \in (IF script = "video" THEN {NoArg} \cup VideoIds ELSE {NoArg}) :
          Set(r, [IdleRun EXCEPT !.pc = "load", !.arg = a, !.startLedger = ledger])
    /\ UNCHANGED <<source, flow, content, thread, script, ledger, disk, minted, store>>

\* Step 1: the ledger is loaded; the video script skips it when given an id
Load(r) ==
    /\ run[r].pc = "load"
    /\ Set(r, [run[r] EXCEPT
                 !.pc = "fetch",
                 !.alreadyPosted =
                     IF run[r].arg = NoArg THEN loadPosted(ledger) ELSE {}])
    /\ UNCHANGED <<source, flow, content, thread, script, ledger, disk, minted, store>>

\* Step 2 of auto-post-daily.ts: getLatestImagePost
FetchTweet(r) ==
    /\ script = "tweet"
    /\ run[r].pc = "fetch"
    /\ \/ Throw(r, "fetch")                       \* userTimeline rejects
       \/ \E tl \in Timelines :
             LET i == getLatestImagePost(run[r].alreadyPosted, tl)
             IN  IF tl = <<>> THEN Throw(r, "fetch")          \* 'No tweets found'
                 ELSE IF i = 0                                \* 'No valid image posts found'
                      THEN Set(r, [run[r] EXCEPT !.pc = "fail", !.err = "novalid",
                                                 !.seen = Candidates(tl)])
                 ELSE Set(r, [run[r] EXCEPT !.pc = "process", !.target = tl[i].id,
                                            !.seen = Candidates(tl)])
    /\ UNCHANGED <<source, flow, content, thread, script, ledger, disk, minted, store>>

\* Step 2 of youtube-shorts-zora.ts: getSpecificVideo or getLatestShorts
FetchVideo(r) ==
    /\ script = "video"
    /\ run[r].pc = "fetch"
    /\ \/ Throw(r, "fetch")                       \* API error, 'Video not found', 'No videos found'
       \/ /\ run[r].arg # NoArg
          /\ Set(r, [run[r] EXCEPT
                       !.pc = "download",
                       !.target = run[r].arg,
                       !.seen = {run[r].arg},
                       !.warned = WarnAlreadyPosted(run[r].alreadyPosted, run[r].arg)])
       \/ /\ run[r].arg = NoArg
          /\ \E v \in VideoIds :
                IF getLatestShorts(run[r].alreadyPosted, v)
                THEN Set(r, [run[r] EXCEPT !.pc = "fail", !.err = "already",
                                           !.seen = {v}])   \* 'Latest video has already been posted'
                ELSE Set(r, [run[r] EXCEPT !.pc = "download", !.target = v,
                                           !.seen = {v}])
    /\ UNCHANGED <<source, flow, content, thread, script, ledger, disk, minted, store>>

\* Step 3 of auto-post-daily.ts: processTwitterContent (it catches every error)
Process(r) ==
    /\ script = "tweet"
    /\ run[r].pc = "process"
    /\ Set(r, [run[r] EXCEPT !.pc = "mint"])
    /\ UNCHANGED <<source, flow, content, thread, script, ledger, disk, minted, store>>

StrategyFailed_SkipOne(r, rec) ==
    IF rec.strat = NumStrategies
    THEN [rec EXCEPT !.pc = "fail", !.err = "download"]
    ELSE [rec EXCEPT !.strat = IF rec.strat + 2 <= NumStrategies
                               THEN rec.strat + 2 ELSE NumStrategies]

StrategyFailed_GiveUp(r, rec) ==
    [rec EXCEPT !.pc = "fail", !.err = "download"]

\* the catch of the for loop of downloadShortVideo
StrategyFailed(r, rec) ==
    IF rec.strat = NumStrategies
    THEN [rec EXCEPT !.pc = "fail", !.err = "download"]
    ELSE [rec EXCEPT !.strat = rec.strat + 1]

\* Step 3 of youtube-shorts-zora.ts: one pass of the loop of downloadShortVideo.
\* yt-dlp leaves any set of files for the id and exits with any code, or cannot
\* be spawned at all.
Download(r) ==
    /\ script = "video"
    /\ run[r].pc = "download"
    /\ \/ /\ run[r].dlCalls = 0                   \* fs.mkdir rejects
          /\ Throw(r, "mkdir")
          /\ disk' = disk
       \/ /\ Set(r, StrategyFailed(r, [run[r] EXCEPT !.dlCalls = @ + 1]))   \* 'error' event
          /\ disk' = disk
       \/ \E code \in {0, 1}, F \in SUBSET Suffixes :
             LET new == {<<run[r].target, s>> : s \in F}
                 rec == [run[r] EXCEPT !.dlCalls = @ + 1, !.acquired = @ \cup new]
             IN  /\ disk' = disk \cup new
                 /\ \E res \in tryDownloadWithFormat(run[r].target, disk \cup new, code) :
                       IF res.ok
                       THEN Set(r, [rec EXCEPT !.pc = "mint",
                                               !.videoPath = res.videoPath,
                                               !.thumbnailPath = res.thumbnailPath])
                       ELSE Set(r, StrategyFailed(r, rec))
    /\ UNCHANGED <<source, flow, content, thread, script, ledger, minted, store>>

MainAfterCoin_AlwaysSave(ok, arg) ==
    IF ~ok THEN "fail" ELSE "save_read"

MainAfterCoin_Retry(ok, arg) ==
    IF ~ok THEN "mint" ELSE IF arg = NoArg THEN "save_read" ELSE "log"

MainAfterCoin_IgnoreFailure(ok, arg) ==
    IF arg = NoArg THEN "save_read" ELSE "log"

\* main after createZoraCoin / createZoraCoinWithVideo settled: its catch when
\* the call threw; when it returned, Step 5 (the video script: only when no id
\* was given), then the run log
MainAfterCoin(ok, arg) ==
    IF ~ok THEN "fail" ELSE IF arg = NoArg THEN "save_read" ELSE "log"

\* Step 4: createZoraCoin / the try block of createZoraCoinWithVideo. The call
\* returns a transaction hash or throws.
Mint(r) ==
    /\ run[r].pc = "mint"
    /\ \E ok \in BOOLEAN :
          /\ Set(r, [run[r] EXCEPT
                       !.pc = IF script = "video" THEN "cleanup"
                              ELSE MainAfterCoin(ok, run[r].arg),
                       !.err = IF ok THEN "none" ELSE "mint",
                       !.mintCalls = @ + 1,
                       !.tx = IF ok THEN Tx ELSE NoTx])
          /\ minted' = IF ok /\ run[r].arg = NoArg
                       THEN minted \cup {run[r].target} ELSE minted
    /\ UNCHANGED <<source, flow, content, thread, script, ledger, disk, store>>

\* the finally block of createZoraCoinWithVideo: unlink(videoPath), then
\* unlink(thumbnailPath); a throw of either ends the block
Cleanup(r) ==
    /\ script = "video"
    /\ run[r].pc = "cleanup"
    /\ \E u \in {"ok", "video_throws", "thumbnail_throws"} :
          disk' = CASE u = "ok" ->
                         disk \ {<<run[r].target, run[r].videoPath>>,
                                 <<run[r].target, run[r].thumbnailPath>>}
                    [] u = "thumbnail_throws" ->
                         disk \ {<<run[r].target, run[r].videoPath>>}
                    [] OTHER -> disk
    /\ Set(r, [run[r] EXCEPT !.pc = MainAfterCoin(run[r].tx # NoTx, run[r].arg)])
    /\ UNCHANGED <<source, flow, content, thread, script, ledger, minted, store>>

\* Step 5, savePosted*: the inner try, fs.readFile + JSON.parse
SaveReadStep(r) ==
    /\ run[r].pc = "save_read"
    /\ Set(r, [run[r] EXCEPT !.pc = "save_write", !.records = SaveRead(ledger)])
    /\ UNCHANGED <<source, flow, content, thread, script, ledger, disk, minted, store>>

\* Step 5, savePosted*: push, trim, fs.writeFile; the outer catch swallows a throw
SaveWriteStep(r) ==
    /\ run[r].pc = "save_write"
    /\ \E t \in Clock, w \in WriteOutcomes :
          /\ ledger' = WriteFile(ledger,
                                 PushAndTrim(run[r].records, Record(run[r].target, t),
                                             Keep(script)),
                                 w)
          /\ Set(r, [run[r] EXCEPT !.pc = "log", !.saved = (w = "ok"),
                                    !.saveCalls = @ + 1])
    /\ UNCHANGED <<source, flow, content, thread, script, disk, minted, store>>

\* the SUCCESS entry is appended to the run log and main returns; a throw of
\* fs.appendFile is still inside the try block of main
LogSuccess(r) ==
    /\ run[r].pc = "log"
    /\ \/ Set(r, [run[r] EXCEPT !.pc = "done", !.logged = Append(@, "SUCCESS"),
                                !.exit = "0"])
       \/ Throw(r, "log")
    /\ UNCHANGED <<source, flow, content, thread, script, ledger, disk, minted, store>>

\* the catch of main: the FAILED entry is appended and process.exit(1) is
\* called; when fs.appendFile throws there, main() rejects, the rejection is
\* printed by main().catch(console.error) and the process ends with status 0
LogFailure(r) ==
    /\ run[r].pc = "fail"
    /\ \/ Set(r, [run[r] EXCEPT !.pc = "exited", !.logged = Append(@, "FAILED"),
                                !.exit = "1"])
       \/ Set(r, [run[r] EXCEPT !.pc = "exited", !.exit = "0"])
    /\ UNCHANGED <<source, flow, content, thread, script, ledger, disk, minted, store>>

Step(r) ==
    \/ Start(r)
    \/ Load(r)
    \/ FetchTweet(r)
    \/ FetchVideo(r)
    \/ Process(r)
    \/ Download(r)
    \/ Mint(r)
    \/ Cleanup(r)
    \/ SaveReadStep(r)
    \/ SaveWriteStep(r)
    \/ LogSuccess(r)
    \/ LogFailure(r)

\* runs are scheduled one at a time (cron): one run of main() after another
Next == Step(1)

Spec == Init /\ [][Next]_vars

----------------------------------------------------------------------------
(* Two invocations of auto-post-daily.ts that overlap *)

InitOverlap ==
    /\ script = "tweet"
    /\ ledger = NoFile
    /\ disk = {}
    /\ minted = {}
    /\ run = [r \in Runs |-> IdleRun]
    /\ store = [op |-> "none", id |-> NoId, outcome |-> "none", dropped |-> <<>>,
                loaded |-> {}]
    /\ content = NoContent
    /\ thread = NoThread
    /\ flow = NoFlow
    /\ source = NoSource

\* a second process is started (by hand, or by a cron entry that fires while
\* the first still runs): nothing makes it wait for the other
StartOverlap(r) ==
    /\ run[r].pc = "idle"
    /\ Set(r, [IdleRun EXCEPT !.pc = "load", !.startLedger = ledger])
    /\ UNCHANGED <<source, flow, content, thread, script, ledger, disk, minted, store>>

\* the two processes interleave at their awaits
NextOverlap ==
    \E r \in Runs :
       \/ StartOverlap(r)
       \/ Load(r)
       \/ FetchTweet(r)
       \/ Process(r)
       \/ Mint(r)
       \/ SaveReadStep(r)
       \/ SaveWriteStep(r)
       \/ LogSuccess(r)
       \/ LogFailure(r)

SpecOverlap == InitOverlap /\ [][NextOverlap]_vars

----------------------------------------------------------------------------
(* getLatestImagePost on its own: one call on any response and any loaded set *)

InitSource ==
    /\ script = "tweet"
    /\ ledger = NoFile
    /\ disk = {}
    /\ minted = {}
    /\ run = [r \in Runs |-> IdleRun]
    /\ store = [op |-> "none", id |-> NoId, outcome |-> "none", dropped |-> <<>>,
                loaded |-> {}]
    /\ content = NoContent
    /\ thread = NoThread
    /\ flow = NoFlow
    /\ \E posted \in SUBSET TweetIds, posts \in PostTimelines :
          source = [NoSource EXCEPT !.alreadyPosted = posted, !.posts = posts]

\* the call returns the item at source.out, or throws ('No tweets found',
\* 'No valid image posts found ...')
CallGetLatestImagePost ==
    /\ source.fn = "none"
    /\ LET i == getLatestImagePost(source.alreadyPosted, Filtered(source.posts))
       IN  source' = [source EXCEPT !.fn = "getLatestImagePost",
                                    !.out = i,
                                    !.threw = (source.posts = <<>> \/ i = 0)]
    /\ UNCHANGED <<script, ledger, disk, minted, run, store, content, thread, flow>>

NextSource == CallGetLatestImagePost

SpecSource == InitSource /\ [][NextSource]_vars

----------------------------------------------------------------------------
(* The DeduplicationStore on its own: record and load applied in any order *)

\* the records a call of savePosted* removes from the front of the array
Dropped(records, k) ==
    IF Len(records) + 1 > k THEN SubSeq(records, 1, Len(records) + 1 - k) ELSE <<>>

\* record(entry): one whole call of savePostedTweet / savePostedVideo
StoreRecord ==
    /\ \E id \in StoreIds, t \in Clock, w \in WriteOutcomes :
          /\ ledger' = savePosted(ledger, Record(id, t), Keep(script), w)
          /\ store' = [op |-> "record", id |-> id, outcome |-> w,
                       dropped |-> Dropped(SaveRead(ledger), Keep(script)),
                       loaded |-> {}]
    /\ UNCHANGED <<source, flow, content, thread, script, disk, minted, run>>

\* load(): one call of loadPostedTweets / loadPostedVideos
StoreLoad ==
    /\ store' = [op |-> "load", id |-> NoId, outcome |-> "ok", dropped |-> <<>>,
                 loaded |-> loadPosted(ledger)]
    /\ UNCHANGED <<source, flow, content, thread, script, ledger, disk, minted, run>>

NextStore == StoreRecord \/ StoreLoad

SpecStore == Init /\ [][NextStore]_vars

----------------------------------------------------------------------------
(* ContentNormalizer: cleanTextBasic, cleanAndOptimizeContent, summarizeThread *)

\* A text is a sequence of tokens. "https" and "://t.co/" are the two halves of
\* the literal prefix of /https:\/\/t\.co\/\w+/ (the first made of word
\* characters, the second starting and ending with a non-word character), "a"
\* is any other word character, " " and "nl" are white space.
Tokens == {"https", "://t.co/", "a", " ", "nl"}

RECURSIVE SeqsUpTo(_, _)
SeqsUpTo(S, n) ==
    IF n = 0 THEN {<<>>}
    ELSE LET shorter == SeqsUpTo(S, n - 1)
         IN  shorter \cup {Append(t, c) : t \in shorter, c \in S}

Texts == SeqsUpTo(Tokens, MaxText)

\* \w and \s
Word(c) == c \in {"https", "a"}
Space(c) == c \in {" ", "nl"}

\* text.length
Length(text) ==
    LET RECURSIVE Sum(_)
        Sum(i) == IF i = 0 THEN 0
                  ELSE Sum(i - 1) + (CASE text[i] = "https" -> 5
                                       [] text[i] = "://t.co/" -> 8
                                       [] OTHER -> 1)
    IN  Sum(Len(text))

\* \w+ and \s+ are greedy: the last index of the run of word characters, or of
\* white space, that starts at i (i - 1 when text[i] is not of the class)
RECURSIVE WordRunEnd(_, _)
WordRunEnd(text, i) ==
    IF i <= Len(text) /\ Word(text[i]) THEN WordRunEnd(text, i + 1) ELSE i - 1

RECURSIVE SpaceRunEnd(_, _)
SpaceRunEnd(text, i) ==
    IF i <= Len(text) /\ Space(text[i]) THEN SpaceRunEnd(text, i + 1) ELSE i - 1

\* /https:\/\/t\.co\/\w+/ matches at index i
MatchAt(text, i) ==
    /\ i + 2 <= Len(text)
    /\ text[i] = "https"
    /\ text[i + 1] = "://t.co/"
    /\ Word(text[i + 2])

\* .replace(/https:\/\/t\.co\/\w+/g, ''): one left-to-right pass, the scan
\* resuming after each match
RECURSIVE ReplaceLinksFrom(_, _)
ReplaceLinksFrom(text, i) ==
    IF i > Len(text) THEN <<>>
    ELSE IF MatchAt(text, i)
         THEN ReplaceLinksFrom(text, WordRunEnd(text, i + 2) + 1)
         ELSE <<text[i]>> \o ReplaceLinksFrom(text, i + 1)

ReplaceLinks(text) == ReplaceLinksFrom(text, 1)

\* .replace(/\s+/g, ' ')
RECURSIVE ReplaceWhitespaceFrom(_, _)
ReplaceWhitespaceFrom(text, i) ==
    IF i > Len(text) THEN <<>>
    ELSE IF Space(text[i])
         THEN <<" ">> \o ReplaceWhitespaceFrom(text, SpaceRunEnd(text, i) + 1)
         ELSE <<text[i]>> \o ReplaceWhitespaceFrom(text, i + 1)

ReplaceWhitespace(text) == ReplaceWhitespaceFrom(text, 1)

\* .trim()
RECURSIVE Trim(_)
Trim(text) ==
    IF text = <<>> THEN <<>>
    ELSE IF Space(Head(text)) THEN Trim(Tail(text))
    ELSE IF Space(text[Len(text)]) THEN Trim(SubSeq(text, 1, Len(text) - 1))
    ELSE text

cleanTextBasic_NoTrim(text) == ReplaceWhitespace(ReplaceLinks(text))

cleanTextBasic_DoubleSpace(text) ==
    LET cleaned == Trim(ReplaceWhitespace(ReplaceLinks(text)))
        RECURSIVE Widen(_)
        Widen(i) == IF i > Len(cleaned) THEN <<>>
                    ELSE IF Space(cleaned[i]) THEN <<" ", " ", " ">> \o Widen(i + 1)
                    ELSE <<cleaned[i]>> \o Widen(i + 1)
    IN  Widen(1)

cleanTextBasic(text) == Trim(ReplaceWhitespace(ReplaceLinks(text)))

\* a || b on strings: the empty string is falsy
Or(a, b) == IF a # <<>> THEN a ELSE b

\* what openai.responses.create can do: throw (error, timeout), or return a
\* response whose output_text is empty or some text
Replies == {<<>>, <<"a">>}
AiOutcomes == {[kind |-> "throws", reply |-> <<>>]}
                 \cup {[kind |-> "returns", reply |-> t] : t \in Replies}

cleanAndOptimizeContent(text, ai) ==
    IF ai.kind = "throws" THEN cleanTextBasic(text) ELSE Or(ai.reply, text)

\* tweets: the texts of the tweets passed, in the order passed
summarizeThread(tweets, ai) ==
    IF ai.kind = "throws"
    THEN cleanTextBasic(IF tweets # <<>> THEN tweets[1] ELSE <<>>)
    ELSE Or(ai.reply, <<>>)

\* the texts of the tweets that follow the first one in a thread
LaterTexts == {<<>>, << <<"a">> >>}

InitText ==
    /\ script = "tweet"
    /\ ledger = NoFile
    /\ disk = {}
    /\ minted = {}
    /\ run = [r \in Runs |-> IdleRun]
    /\ store = [op |-> "none", id |-> NoId, outcome |-> "none", dropped |-> <<>>,
                loaded |-> {}]
    /\ thread = NoThread
    /\ flow = NoFlow
    /\ source = NoSource
    /\ \E t \in Texts : content = [NoContent EXCEPT !.fn = "input", !.texts = <<t>>]

CallNormalize ==
    /\ content.fn = "input"
    /\ \E ai \in AiOutcomes :
          content' = [content EXCEPT
                        !.fn = "normalize",
                        !.ai = ai,
                        !.out = cleanAndOptimizeContent(content.texts[1], ai)]
    /\ UNCHANGED <<script, ledger, disk, minted, run, store, thread, flow, source>>

CallSummarize ==
    /\ content.fn = "input"
    /\ \E later \in LaterTexts, ai \in AiOutcomes :
          content' = [content EXCEPT
                        !.fn = "summarize",
                        !.texts = @ \o later,
                        !.ai = ai,
                        !.out = summarizeThread(content.texts \o later, ai)]
    /\ UNCHANGED <<script, ledger, disk, minted, run, store, thread, flow, source>>

NextText == CallNormalize \/ CallSummarize

SpecText == InitText /\ [][NextText]_vars

----------------------------------------------------------------------------
(* ThreadReconstructor: isPartOfThread, getThreadFromTimeline,                *)
(* sortThreadChronologically                                                  *)

\* referenced_tweets: absent, or an array given by the types it holds
NoRefs == [present |-> FALSE, types |-> {}]
Refs == {NoRefs, [present |-> TRUE, types |-> {"quoted"}],
         [present |-> TRUE, types |-> {"replied_to"}]}

\* conversation ids: a tweet's own id, or another one
Conversations == {1, 2}

\* the tweets of a fetched timeline carry distinct ids: here, their position
TimelineData ==
    UNION {{w \in [1..n -> [id : 1..MaxWindow, conv : Conversations,
                            at : 0..MaxTime, refs : Refs]] :
               \A i \in 1..n : w[i].id = i} : n \in 1..MaxWindow}

\* tweet.referenced_tweets?.some(ref => ref.type === type)
Some(refs, type) ==
    IF ~refs.present THEN "undefined"
    ELSE IF type \in refs.types THEN "true" ELSE "false"

isPartOfThread_OnlyReplies(tweet) ==
    Some(tweet.refs, "replied_to") = "true"

isPartOfThread(tweet) ==
    LET hasRepliedTo == Some(tweet.refs, "replied_to")
        isReply == tweet.conv # tweet.id
    IN  IF hasRepliedTo = "true" THEN TRUE ELSE isReply

\* timelineData.filter(tweet => tweet.conversation_id === conversationId)
RECURSIVE getThreadFromTimeline(_, _)
getThreadFromTimeline(conversationId, timelineData) ==
    IF timelineData = <<>> THEN <<>>
    ELSE LET rest == getThreadFromTimeline(conversationId, Tail(timelineData))
         IN  IF Head(timelineData).conv = conversationId
             THEN <<Head(timelineData)>> \o rest
             ELSE rest

\* the number of leading elements of tweets created before at (strict), or
\* not after it
RECURSIVE Leading(_, _, _)
Leading(tweets, at, strict) ==
    IF tweets # <<>> /\ (Head(tweets).at < at \/ (~strict /\ Head(tweets).at = at))
    THEN 1 + Leading(Tail(tweets), at, strict) ELSE 0

InsertAt(tweets, k, tweet) ==
    SubSeq(tweets, 1, k) \o <<tweet>> \o SubSeq(tweets, k + 1, Len(tweets))

RECURSIVE sortThreadChronologically_Unstable(_)
sortThreadChronologically_Unstable(tweets) ==
    IF tweets = <<>> THEN <<>>
    ELSE LET sorted == sortThreadChronologically_Unstable(
                           SubSeq(tweets, 1, Len(tweets) - 1))
             last == tweets[Len(tweets)]
         IN  InsertAt(sorted, Leading(sorted, last.at, TRUE), last)

\* tweets.sort((a, b) => time(a) - time(b)): Array.prototype.sort is stable,
\* an element goes after the elements that compare less than or equal to it
RECURSIVE sortThreadChronologically(_)
sortThreadChronologically(tweets) ==
    IF tweets = <<>> THEN <<>>
    ELSE LET sorted == sortThreadChronologically(SubSeq(tweets, 1, Len(tweets) - 1))
             last == tweets[Len(tweets)]
         IN  InsertAt(sorted, Leading(sorted, last.at, FALSE), last)

InitThread ==
    /\ script = "tweet"
    /\ ledger = NoFile
    /\ disk = {}
    /\ minted = {}
    /\ run = [r \in Runs |-> IdleRun]
    /\ store = [op |-> "none", id |-> NoId, outcome |-> "none", dropped |-> <<>>,
                loaded |-> {}]
    /\ content = NoContent
    /\ flow = NoFlow
    /\ source = NoSource
    /\ \E w \in TimelineData :
          thread = [NoThread EXCEPT !.fn = "input", !.tweet = w[1], !.window = w]

\* isPartOfThread(tweet) for a tweet of the timeline
CallIsPartOfThread ==
    /\ thread.fn = "input"
    /\ \E i \in DOMAIN thread.window :
          thread' = [thread EXCEPT !.fn = "isPartOfThread",
                                   !.tweet = thread.window[i],
                                   !.member = isPartOfThread(thread.window[i])]
    /\ UNCHANGED <<script, ledger, disk, minted, run, store, content, flow, source>>

reconstruct_SortInPlace(tweet, timelineData) ==
    LET sorted == sortThreadChronologically(timelineData)
    IN  [timelineData |-> sorted,
         threadTweets |-> getThreadFromTimeline(tweet.conv, sorted)]

\* the thread branch of processTwitterContent: the two arrays after it.
\* filter returns a new array; sort works in place, on that new array.
reconstruct(tweet, timelineData) ==
    LET threadTweets == getThreadFromTimeline(tweet.conv, timelineData)
    IN  [timelineData |-> timelineData,
         threadTweets |-> IF Len(threadTweets) <= 1 THEN threadTweets
                          ELSE sortThreadChronologically(threadTweets)]

\* the thread branch of processTwitterContent for a tweet of the timeline:
\* the timeline is filtered, and sorted when more than one tweet is left
CallReconstruct ==
    /\ thread.fn = "input"
    /\ \E i \in DOMAIN thread.window :
          LET tweet == thread.window[i]
              arrays == reconstruct(tweet, thread.window)
          IN  /\ isPartOfThread(tweet)
              /\ thread' = [thread EXCEPT
                              !.fn = "reconstruct",
                              !.tweet = tweet,
                              !.member = TRUE,
                              !.window = arrays.timelineData,
                              !.out = arrays.threadTweets]
    /\ UNCHANGED <<script, ledger, disk, minted, run, store, content, flow, source>>

findFirstTweet_Earliest(tweets) == IF tweets = <<>> THEN 0 ELSE 1

\* tweets.find(tweet => !tweet.referenced_tweets?.some(ref => ref.type ===
\* "replied_to")): the index of the first such tweet, 0 for undefined
findFirstTweet(tweets) ==
    LET roots == {i \in DOMAIN tweets : Some(tweets[i].refs, "replied_to") # "true"}
    IN  IF roots = {} THEN 0 ELSE CHOOSE i \in roots : \A j \in roots : i <= j

\* processTwitterContent: what it returns as firstTweetId, what it passes to
\* summarizeThread and how often it calls summarizeThread and
\* cleanAndOptimizeContent. Neither of the two throws, so no catch is entered.
processTwitterContent_SummarizeOne(tweet, timelineData) ==
    LET threadTweets == sortThreadChronologically(
                            getThreadFromTimeline(tweet.conv, timelineData))
    IN  IF ~isPartOfThread(tweet) \/ threadTweets = <<>>
        THEN [firstTweetId |-> tweet.id, summarized |-> <<>>,
              summarizeCalls |-> 0, normalizeCalls |-> 1, normalized |-> "text"]
        ELSE [firstTweetId |-> tweet.conv, summarized |-> threadTweets,
              summarizeCalls |-> 1, normalizeCalls |-> 1, normalized |-> "summary"]

processTwitterContent(tweet, timelineData) ==
    LET single == [firstTweetId |-> tweet.id, summarized |-> <<>>,
                   summarizeCalls |-> 0, normalizeCalls |-> 1,
                   normalized |-> "text"]
        filtered == getThreadFromTimeline(tweet.conv, timelineData)
        \* sort works in place: threadTweets and sortedTweets are one array
        threadTweets == sortThreadChronologically(filtered)
        firstTweet == findFirstTweet(threadTweets)
    IN  IF ~isPartOfThread(tweet) THEN single
        ELSE IF Len(filtered) <= 1 THEN single
        ELSE [firstTweetId |-> IF firstTweet # 0 THEN threadTweets[firstTweet].id
                               ELSE tweet.conv,
              summarized |-> threadTweets,
              summarizeCalls |-> 1,
              normalizeCalls |-> 1,
              normalized |-> "summary"]

CallProcessTwitterContent ==
    /\ thread.fn = "input"
    /\ \E i \in DOMAIN thread.window :
          LET tweet == thread.window[i]
              result == processTwitterContent(tweet, thread.window)
          IN  thread' = [thread EXCEPT
                           !.fn = "process",
                           !.tweet = tweet,
                           !.member = isPartOfThread(tweet),
                           !.firstTweetId = result.firstTweetId,
                           !.summarized = result.summarized,
                           !.summarizeCalls = result.summarizeCalls,
                           !.normalizeCalls = result.normalizeCalls,
                           !.normalized = result.normalized]
    /\ UNCHANGED <<script, ledger, disk, minted, run, store, content, flow, source>>

NextThread == CallIsPartOfThread \/ CallReconstruct \/ CallProcessTwitterContent

SpecThread == InitThread /\ [][NextThread]_vars

----------------------------------------------------------------------------
(* main() as a sequence of external calls                                     *)

\* the awaits of main() and of the functions it calls that reach an external
\* service or process: the source platform (fetch1, fetch2), the AI service
\* (summarize, normalize), yt-dlp (download), the Zora uploader (upload1..3)
\* and createCoin (mint)
Sites == {"fetch1", "fetch2", "summarize", "normalize", "download",
          "upload1", "upload2", "upload3", "mint"}

\* the collaborator a call site talks to
Kind(site) ==
    CASE site \in {"fetch1", "fetch2"} -> "source"
      [] site \in {"summarize", "normalize"} -> "ai"
      [] site = "download" -> "downloader"
      [] site \in {"upload1", "upload2", "upload3"} -> "upload"
      [] OTHER -> "mint"

\* the pipeline step a call site belongs to
StepOf(site) ==
    CASE site \in {"fetch1", "fetch2"} -> "fetch"
      [] site \in {"summarize", "normalize"} -> "normalize"
      [] site = "download" -> "acquire"
      [] OTHER -> "mint"

\* steps are logged once, when they are entered
Enter(steps, step) ==
    IF steps # <<>> /\ steps[Len(steps)] = step THEN steps ELSE Append(steps, step)

Awaited_NotTheDownloader(site) == site # "download"

\* every one of the calls is awaited where it is made
Awaited(site) == TRUE

Outcomes == {"ok", "fail", "none"}

\* where main() of auto-post-daily.ts goes when the call at f.pc has settled.
\* outcome "none": the fetch returned, and no item passed the filters and the
\* dedup check.
FlowNextTweet(f, outcome) ==
    CASE f.pc = "fetch1" ->
            IF outcome = "fail" THEN [f EXCEPT !.pc = "failed"]
            ELSE IF outcome = "none"
                 THEN [f EXCEPT !.pc = "failed", !.steps = Enter(@, "dedup")]
            ELSE [f EXCEPT !.pc = IF f.isThread THEN "summarize" ELSE "normalize",
                           !.steps = Enter(Enter(@, "dedup"), "thread")]
      [] f.pc = "summarize" -> [f EXCEPT !.pc = "normalize"]
      [] f.pc = "normalize" -> [f EXCEPT !.pc = "upload3"]
      [] f.pc = "upload3" ->
            [f EXCEPT !.pc = IF outcome = "ok" THEN "mint" ELSE "failed"]
      [] f.pc = "mint" ->
            IF outcome = "ok"
            THEN [f EXCEPT !.pc = "done", !.steps = Enter(@, "commit")]
            ELSE [f EXCEPT !.pc = "failed"]
      [] OTHER -> [f EXCEPT !.pc = "failed"]

\* where main() of youtube-shorts-zora.ts goes when the call at f.pc has settled
FlowNextVideo(f, outcome) ==
    CASE f.pc = "fetch1" ->
            IF outcome # "ok" THEN [f EXCEPT !.pc = "failed"]
            ELSE IF f.targeted
                 THEN [f EXCEPT !.pc = "download", !.steps = Enter(@, "dedup")]
            ELSE [f EXCEPT !.pc = "fetch2"]
      [] f.pc = "fetch2" ->
            IF outcome = "fail" THEN [f EXCEPT !.pc = "failed"]
            ELSE IF outcome = "none"
                 THEN [f EXCEPT !.pc = "failed", !.steps = Enter(@, "dedup")]
            ELSE [f EXCEPT !.pc = "download", !.steps = Enter(@, "dedup")]
      [] f.pc = "download" ->
            IF outcome = "ok" THEN [f EXCEPT !.pc = "normalize"]
            ELSE IF f.strat = NumStrategies THEN [f EXCEPT !.pc = "failed"]
            ELSE [f EXCEPT !.strat = @ + 1]
      [] f.pc = "normalize" -> [f EXCEPT !.pc = "upload1"]
      [] f.pc = "upload1" ->
            [f EXCEPT !.pc = IF outcome = "ok" THEN "upload2" ELSE "failed"]
      [] f.pc = "upload2" ->
            [f EXCEPT !.pc = IF outcome = "ok" THEN "upload3" ELSE "failed"]
      [] f.pc = "upload3" ->
            [f EXCEPT !.pc = IF outcome = "ok" THEN "mint" ELSE "failed"]
      [] f.pc = "mint" ->
            IF outcome # "ok" THEN [f EXCEPT !.pc = "failed"]
            ELSE [f EXCEPT !.pc = "done",
                           !.steps = IF f.targeted THEN @ ELSE Enter(@, "commit")]
      [] OTHER -> [f EXCEPT !.pc = "failed"]

FlowNext_RefetchForThread(f, outcome) ==
    IF script = "tweet" /\ f.pc = "fetch1" /\ outcome = "ok" /\ f.isThread
       /\ Len(f.calls) = 1
    THEN [f EXCEPT !.steps = Enter(Enter(@, "dedup"), "thread")]
    ELSE IF script = "tweet" THEN FlowNextTweet(f, outcome)
    ELSE FlowNextVideo(f, outcome)

FlowNext_MintBeforeNormalize(f, outcome) ==
    IF script = "video" THEN FlowNextVideo(f, outcome)
    ELSE IF f.pc = "fetch1" /\ outcome = "ok"
         THEN [f EXCEPT !.pc = "mint", !.steps = Enter(Enter(@, "dedup"), "thread")]
    ELSE IF f.pc = "mint" /\ outcome = "ok" THEN [f EXCEPT !.pc = "normalize"]
    ELSE IF f.pc = "normalize" THEN [f EXCEPT !.pc = "done"]
    ELSE FlowNextTweet(f, outcome)

FlowNext_RetryForever(f, outcome) ==
    IF script = "tweet" THEN FlowNextTweet(f, outcome)
    ELSE IF f.pc = "download" /\ outcome # "ok" THEN f
    ELSE FlowNextVideo(f, outcome)

FlowNext(f, outcome) ==
    IF script = "tweet" THEN FlowNextTweet(f, outcome) ELSE FlowNextVideo(f, outcome)

InitFlow ==
    /\ script \in {"tweet", "video"}
    /\ ledger = NoFile
    /\ disk = {}
    /\ minted = {}
    /\ run = [r \in Runs |-> IdleRun]
    /\ store = [op |-> "none", id |-> NoId, outcome |-> "none", dropped |-> <<>>,
                loaded |-> {}]
    /\ content = NoContent
    /\ thread = NoThread
    /\ \E t, th \in BOOLEAN :
          /\ script = "tweet" => ~t
          /\ script = "video" => ~th
          /\ flow = [NoFlow EXCEPT !.pc = "fetch1", !.targeted = t, !.isThread = th]
    /\ source = NoSource

\* the call at flow.pc is made; main() goes on when it has settled
FlowBegin ==
    /\ flow.pc \in Sites
    /\ ~flow.waiting
    /\ LET started == [flow EXCEPT
                          !.calls = Append(@, Kind(flow.pc)),
                          !.inflight = @ \cup {Len(flow.calls) + 1},
                          !.steps = Enter(@, StepOf(flow.pc))]
       IN  flow' = IF Awaited(flow.pc) THEN [started EXCEPT !.waiting = TRUE]
                   ELSE FlowNext(started, "ok")
    /\ UNCHANGED <<script, ledger, disk, minted, run, store, content, thread, source>>

\* a call in flight settles: it returns, or throws
FlowSettle ==
    /\ \E i \in flow.inflight, outcome \in Outcomes :
          LET settled == [flow EXCEPT !.inflight = @ \ {i}]
          IN  /\ outcome = "none" => flow.pc \in {"fetch1", "fetch2"}
              /\ flow' = IF flow.waiting /\ i = Len(flow.calls)
                          THEN FlowNext([settled EXCEPT !.waiting = FALSE], outcome)
                          ELSE settled
    /\ UNCHANGED <<script, ledger, disk, minted, run, store, content, thread, source>>

NextFlow == FlowBegin \/ FlowSettle

SpecFlow == InitFlow /\ [][NextFlow]_vars

\* the same, when main() is scheduled whenever it can go on and every call in
\* flight eventually settles
SpecFlowLive ==
    InitFlow /\ [][NextFlow]_vars /\ WF_vars(FlowBegin) /\ WF_vars(FlowSettle)

----------------------------------------------------------------------------
(* Claims *)

Ids(records) == {records[i].id : i \in DOMAIN records}

NoDuplicateIds(records) ==
    \A i, j \in DOMAIN records : i # j => records[i].id # records[j].id

Last(seq) == seq[Len(seq)]
Front(seq) == SubSeq(seq, 1, Len(seq) - 1)

\* C1: a dedup record is written to the ledger only after the minting call for
\* that item has returned successfully in the same run: every step that changes
\* the ledger file is the write of a run whose createCoin call has returned a
\* transaction for its item, a record written is that item's, and every id the
\* ledger holds has been minted.
C1_RecordOnlyAfterMint ==
    /\ [](LedgerIds(ledger) \subseteq minted)
    /\ [][ledger' # ledger =>
            \E r \in Runs :
               /\ run[r].pc = "save_write"
               /\ run[r].tx = Tx
               /\ run[r].mintCalls = 1
               /\ run[r].target \in minted
               /\ ledger'.kind = "json" => Last(ledger'.records).id = run[r].target]_vars

C1_Witness ==
    \E r \in Runs :
       /\ run[r].pc = "log"
       /\ run[r].saved
       /\ run[r].tx = Tx
       /\ ledger # run[r].startLedger
       /\ run[r].target \in LedgerIds(ledger)

\* C2: when the minting call throws, the run writes no dedup record: from the
\* throw to the end of the run the ledger file is the one the run started with.
C2_MintFailureWritesNothing ==
    \A r \in Runs :
       run[r].err = "mint" =>
          /\ ledger = run[r].startLedger
          /\ run[r].pc \in {"cleanup", "fail", "exited"}
          /\ ~run[r].saved

C2_Witness ==
    \E r \in Runs :
       /\ run[r].pc = "exited"
       /\ run[r].err = "mint"
       /\ run[r].mintCalls = 1
       /\ ledger.kind = "json"
       /\ ledger = run[r].startLedger

\* C3: exactly-once minting: in a sequence of non-overlapping latest-mode runs
\* no createCoin call succeeds for an item id for which one has succeeded before.
C3_MintedAtMostOnce ==
    [][\A r \in Runs :
          (run[r].pc = "mint" /\ run[r].arg = NoArg /\ run'[r].tx = Tx)
             => run[r].target \notin minted]_vars

\* C4: for every id, right after record(entry) for that id has returned,
\* contains(id) is true: load() returns a set that includes the id.
C4_ContainsAfterRecord ==
    store.op = "record" => store.id \in loadPosted(ledger)

\* C5: after any sequence of record operations the ledger holds at most K
\* records, and an insertion that exceeds K evicts the earliest-inserted record:
\* a record call that writes leaves the old array with the new record appended,
\* less its first element when it held K before.
C5_BoundedFifo ==
    /\ [](Len(ledger.records) <= Keep(script))
    /\ [][(store'.op = "record" /\ store'.outcome = "ok") =>
            LET old == SaveRead(ledger)
                new == ledger'.records
            IN  /\ ledger'.kind = "json"
                /\ Last(new).id = store'.id
                /\ Front(new) = IF Len(old) < Keep(script) THEN old ELSE Tail(old)]_vars

\* K + 1 distinct ids were inserted: the first one is absent, the others present
C5_Witness ==
    /\ store.op = "record"
    /\ store.outcome = "ok"
    /\ Len(ledger.records) = Keep(script)
    /\ NoDuplicateIds(store.dropped \o ledger.records)
    /\ Len(store.dropped) = 1
    /\ store.dropped[1].id \notin LedgerIds(ledger)
    /\ Cardinality(LedgerIds(ledger)) = Keep(script)

C7_AlreadyProcessedAborts ==
    \A r \in Runs :
       (/\ run[r].arg = NoArg
        /\ run[r].seen # {}
        /\ run[r].seen \subseteq LedgerIds(run[r].startLedger))
       => /\ run[r].pc \in {"fail", "exited"}
          /\ run[r].err \in {"already", "novalid"}
          /\ run[r].target = NoId
          /\ run[r].dlCalls = 0
          /\ run[r].mintCalls = 0
          /\ run[r].acquired = {}
          /\ ledger = run[r].startLedger

C7_Witness ==
    \E r \in Runs :
       /\ run[r].arg = NoArg
       /\ run[r].pc = "exited"
       /\ run[r].seen # {}
       /\ run[r].seen \subseteq LedgerIds(ledger)
       /\ run[r].err \in {"already", "novalid"}

\* C8: in targeted mode an item that is already recorded in the ledger
\* produces a warning and nothing else: the run is not aborted by it and goes
\* on to media acquisition and minting.
C8_TargetedWarnsAndContinues ==
    \A r \in Runs :
       (/\ run[r].arg # NoArg
        /\ run[r].target # NoId
        /\ run[r].arg \in LedgerIds(run[r].startLedger))
       => /\ run[r].warned
          /\ run[r].err \notin {"already", "novalid"}

\* C9: for every run whose minting hand-off succeeded, at the end of the run
\* the acquired media files have been released and a record of the item is in
\* the ledger, so contains(id) is true (in every operating mode).
C9_SuccessReleasesAndRecords ==
    \A r \in Runs :
       (run[r].pc \in {"done", "exited"} /\ run[r].tx = Tx) =>
          /\ run[r].target \in loadPosted(ledger)
          /\ <<run[r].target, run[r].videoPath>> \notin disk
          /\ <<run[r].target, run[r].thumbnailPath>> \notin disk

\* C10: on every exit path of a run no media file the run acquired remains on
\* disk when the run has ended.
C10_NoAcquiredFileRemains ==
    \A r \in Runs :
       run[r].pc \in {"done", "exited"} => run[r].acquired \cap disk = {}

\* C11: downloadShortVideo tries the strategies in declared order and stops at
\* the first success: the k-th downloader call of a run is strategy k, the
\* paths handed on are the ones strategy n resolved with (files of the target
\* present after that call), and no downloader call follows a success.
C11_OrderedFirstSuccess ==
    /\ [](\A r \in Runs : run[r].videoPath # NoPath => run[r].strat = run[r].dlCalls)
    /\ [][\A r \in Runs :
            /\ run[r].pc = "download" =>
                  /\ run[r].strat = run[r].dlCalls + 1
                  /\ run[r].videoPath = NoPath
                  /\ run'[r].dlCalls \in {run[r].dlCalls, run[r].dlCalls + 1}
                  /\ run'[r].pc = "mint" =>
                        /\ run'[r].dlCalls = run[r].strat
                        /\ run'[r].strat = run[r].strat
                        /\ <<run[r].target, run'[r].videoPath>> \in disk'
                        /\ <<run[r].target, run'[r].thumbnailPath>> \in disk'
            /\ run[r].pc \notin {"download"} \cup Terminal =>
                  run'[r].dlCalls = run[r].dlCalls]_vars

\* strategies 1 and 2 failed, strategy 3 succeeded
C11_Witness ==
    \E r \in Runs :
       /\ run[r].pc = "mint"
       /\ run[r].dlCalls = 3
       /\ run[r].strat = 3
       /\ run[r].videoPath # NoPath

\* C12 (as the code has it): the loop advances to strategy i+1 only in a step
\* in which the call of strategy i was made and settled without a result;
\* downloadShortVideo throws either after all NumStrategies strategies were
\* tried and failed, or before the first one when the downloads directory
\* cannot be created; in both cases the run ends without a minting call and
\* with the ledger it started with.
C12_ExhaustedOrNoDirectory ==
    /\ [](\A r \in Runs :
            /\ run[r].err = "download" => run[r].dlCalls = NumStrategies
            /\ run[r].err = "mkdir" => run[r].dlCalls = 0
            /\ run[r].err \in {"download", "mkdir"} =>
                  /\ run[r].pc \in {"fail", "exited"}
                  /\ run[r].mintCalls = 0
                  /\ run[r].videoPath = NoPath
                  /\ ~run[r].saved
                  /\ ledger = run[r].startLedger)
    /\ [][\A r \in Runs :
            run'[r].strat = run[r].strat + 1 =>
               /\ run[r].pc = "download"
               /\ run'[r].pc = "download"
               /\ run'[r].dlCalls = run[r].dlCalls + 1
               /\ run'[r].videoPath = NoPath]_vars

\* all strategies were tried and failed, and the run has ended
C12_Witness ==
    \E r \in Runs :
       /\ run[r].pc = "exited"
       /\ run[r].err = "download"
       /\ run[r].dlCalls = NumStrategies

\* C12 as stated: whenever downloadShortVideo fails, every strategy has been
\* tried and has failed.
C12_FailsOnlyWhenExhausted ==
    \A r \in Runs :
       run[r].err \in {"download", "mkdir"} => run[r].dlCalls = NumStrategies

\* the "Keep under 250 characters" budget of the instructions
CharBudget == 250

\* the input of the last text call: the text passed, or the first tweet's text
Input == content.texts[1]

HasLink(text) == \E i \in DOMAIN text : MatchAt(text, i)

\* the j-th smallest element of a set of indices
Nth(I, j) == CHOOSE i \in I : Cardinality({x \in I : x < i}) = j - 1

\* S is the set of matches a global left-to-right scan of the regex finds in
\* text: each <<s, e>> is the prefix at s, s+1 followed by a maximal run of
\* word characters ending at e; matches do not overlap; and every index at
\* which a match could start lies in one of them
IsScan(text, S) ==
    /\ \A m \in S :
          /\ MatchAt(text, m[1])
          /\ m[2] >= m[1] + 2
          /\ \A k \in (m[1] + 2)..m[2] : Word(text[k])
          /\ m[2] = Len(text) \/ ~Word(text[m[2] + 1])
    /\ \A m, n \in S : m # n => (m[2] < n[1] \/ n[2] < m[1])
    /\ \A p \in DOMAIN text :
          MatchAt(text, p) => \E m \in S : m[1] <= p /\ p <= m[2]

\* text without the characters of the matches in S
Without(text, S) ==
    LET I == {i \in DOMAIN text : ~\E m \in S : m[1] <= i /\ i <= m[2]}
    IN  [j \in 1..Cardinality(I) |-> text[Nth(I, j)]]

NonSpace(text) == {i \in DOMAIN text : ~Space(text[i])}

\* out is text with every run of white space collapsed to one " " and the
\* white space at both ends removed
IsCollapsedTrimmed(text, out) ==
    LET I == NonSpace(text)
        O == NonSpace(out)
    IN  /\ \A i \in DOMAIN out : Space(out[i]) => out[i] = " "
        /\ out # <<>> => ~Space(out[1]) /\ ~Space(out[Len(out)])
        /\ \A i \in DOMAIN out : i > 1 => ~(Space(out[i - 1]) /\ Space(out[i]))
        /\ Cardinality(O) = Cardinality(I)
        /\ \A j \in 1..Cardinality(I) : out[Nth(O, j)] = text[Nth(I, j)]
        /\ \A j \in 1..(Cardinality(I) - 1) :
              (Nth(O, j + 1) = Nth(O, j) + 1) <=> (Nth(I, j + 1) = Nth(I, j) + 1)

\* C13: cleanAndOptimizeContent returns a non-empty string for every input
\* that has a character other than white space, whatever the AI service does.
C13_NormalizeNonEmpty ==
    (content.fn = "normalize" /\ NonSpace(Input) # {}) => content.out # <<>>

\* C14: when the AI call throws, cleanAndOptimizeContent returns the text with
\* every match of the tracking-link regex removed, every run of white space
\* collapsed to one space, and both ends trimmed.
C14_ThrowGivesRegexCleaned ==
    (content.fn = "normalize" /\ content.ai.kind = "throws") =>
       LET spans == {m \in (DOMAIN Input) \X (DOMAIN Input) : m[1] < m[2]}
       IN  /\ \E S \in SUBSET {m \in spans : MatchAt(Input, m[1])} : IsScan(Input, S)
           /\ \A S \in SUBSET {m \in spans : MatchAt(Input, m[1])} :
                 IsScan(Input, S) => IsCollapsedTrimmed(Without(Input, S), content.out)

\* the AI call threw on a text with a link, white space to collapse and
\* something left to return
C14_Witness ==
    /\ content.fn = "normalize"
    /\ content.ai.kind = "throws"
    /\ HasLink(Input)
    /\ \E i \in DOMAIN Input : i > 1 /\ Space(Input[i - 1]) /\ Space(Input[i])
    /\ content.out # <<>>

\* C15: when the AI call returns an empty output_text, cleanAndOptimizeContent
\* returns the regex-cleaned form of the input, as it does when the call throws.
C15_EmptyReplyGivesRegexCleaned ==
    (content.fn = "normalize" /\ content.ai = [kind |-> "returns", reply |-> <<>>]) =>
       content.out = cleanTextBasic(Input)

\* C16: on the fallback path the output is within the character budget and
\* holds no match of the tracking-link regex.
C16_FallbackBoundedAndLinkFree ==
    (content.fn = "normalize" /\ content.ai.kind = "throws") =>
       /\ Length(content.out) <= CharBudget
       /\ ~HasLink(content.out)

\* C17: the fallback never lengthens: cleanTextBasic(text).length <= text.length.
C17_FallbackNonLengthening ==
    (content.fn \in {"normalize", "summarize"} /\ content.ai.kind = "throws") =>
       Length(content.out) <= Length(Input)

\* the fallback shortened a text and returned something
C17_Witness ==
    /\ content.fn = "normalize"
    /\ content.ai.kind = "throws"
    /\ content.out # <<>>
    /\ Length(content.out) < Length(Input)

\* C18: summarizeThread returns the first tweet's text passed through
\* cleanTextBasic both when the AI call throws and when it returns an empty
\* output_text.
C18_SummarizeFallsBackToFirstTweet ==
    (/\ content.fn = "summarize"
     /\ \/ content.ai.kind = "throws"
        \/ content.ai = [kind |-> "returns", reply |-> <<>>]) =>
       content.out = cleanTextBasic(Input)

\* C19: isPartOfThread returns true exactly when the tweet has a referenced
\* tweet of type "replied_to" or its conversation_id differs from its id;
\* false otherwise, also when referenced_tweets is absent.
C19_ThreadMemberIff ==
    thread.fn = "isPartOfThread" =>
       /\ thread.member \in BOOLEAN
       /\ thread.member <=>
             \/ thread.tweet.refs.present /\ "replied_to" \in thread.tweet.refs.types
             \/ thread.tweet.conv # thread.tweet.id

\* a tweet without referenced_tweets whose conversation_id is its id: false
C19_Witness ==
    /\ thread.fn = "isPartOfThread"
    /\ ~thread.tweet.refs.present
    /\ thread.tweet.conv = thread.tweet.id
    /\ ~thread.member

\* the position of the tweet with this id in the fetched window
FetchIndex(id) == CHOOSE i \in DOMAIN thread.window : thread.window[i].id = id

\* C20: the thread returned for a candidate holds exactly the tweets of the
\* window that share its conversation_id, in non-decreasing created_at order,
\* tweets with equal created_at in their fetch order.
C20_ChronologicalStable ==
    thread.fn = "reconstruct" =>
       /\ {thread.out[i] : i \in DOMAIN thread.out}
             = {thread.window[i] : i \in {j \in DOMAIN thread.window :
                                           thread.window[j].conv = thread.tweet.conv}}
       /\ \A i, j \in DOMAIN thread.out :
             i < j =>
                /\ thread.out[i].id # thread.out[j].id
                /\ thread.out[i].at <= thread.out[j].at
                /\ thread.out[i].at = thread.out[j].at =>
                      FetchIndex(thread.out[i].id) < FetchIndex(thread.out[j].id)

\* a thread of three fetched out of order, two of them with the same created_at
C20_Witness ==
    /\ thread.fn = "reconstruct"
    /\ Len(thread.out) = 3
    /\ thread.out # thread.window
    /\ \E i \in 1..2 : thread.out[i].at = thread.out[i + 1].at

\* the tweets of the window in the conversation of the candidate
InConversation ==
    {thread.window[i] : i \in {j \in DOMAIN thread.window :
                                  thread.window[j].conv = thread.tweet.conv}}

\* those of them without a "replied_to" reference
Roots == {t \in InConversation : ~(t.refs.present /\ "replied_to" \in t.refs.types)}

\* C21: for a thread member whose conversation has two or more tweets in the
\* window, the root (the one tweet without a "replied_to" reference) among
\* them, summarizeThread is called exactly once, with all tweets of the
\* conversation in created_at order, and firstTweetId is the id of the root.
C21_RootIsFirstTweet ==
    (/\ thread.fn = "process"
     /\ thread.member
     /\ Cardinality(InConversation) >= 2
     /\ Cardinality(Roots) = 1) =>
       /\ thread.summarizeCalls = 1
       /\ {thread.summarized[i] : i \in DOMAIN thread.summarized} = InConversation
       /\ Len(thread.summarized) = Cardinality(InConversation)
       /\ \A i, j \in DOMAIN thread.summarized :
             i < j => thread.summarized[i].at <= thread.summarized[j].at
       /\ \A t \in Roots : thread.firstTweetId = t.id

\* three tweets of one conversation, the candidate a reply, the root fetched
\* after a reply and created no earlier than it
C21_Witness ==
    /\ thread.fn = "process"
    /\ Cardinality(InConversation) = 3
    /\ Cardinality(Roots) = 1
    /\ thread.tweet \notin Roots
    /\ thread.firstTweetId # thread.tweet.id
    /\ thread.firstTweetId # thread.summarized[1].id

\* C22: for a thread member with no root of its conversation in the window,
\* firstTweetId is the conversation_id of the candidate.
C22_NoRootGivesConversationId ==
    (/\ thread.fn = "process"
     /\ thread.member
     /\ Roots = {}) =>
       thread.firstTweetId = thread.tweet.conv

\* the position of a step in an order of steps, 0 when it is not in it
Rank(order, step) ==
    IF \E i \in DOMAIN order : order[i] = step
    THEN CHOOSE i \in DOMAIN order : order[i] = step ELSE 0

InOrder(steps, order) ==
    /\ \A i \in DOMAIN steps : Rank(order, steps[i]) # 0
    /\ \A i, j \in DOMAIN steps :
          i < j => Rank(order, steps[i]) < Rank(order, steps[j])

TweetOrder == <<"fetch", "dedup", "thread", "normalize", "mint", "commit">>
VideoOrder == <<"fetch", "dedup", "acquire", "normalize", "mint", "commit">>
StatedOrder == <<"fetch", "dedup", "thread", "normalize", "acquire", "mint", "commit">>

C24_OneCallInFlight ==
    /\ [](Cardinality(flow.inflight) <= 1)
    /\ [][Len(flow'.calls) > Len(flow.calls) => flow.inflight = {}]_vars

\* a run that made nine calls or more (failed downloads among them) and ended
C24_Witness ==
    /\ flow.pc = "done"
    /\ Len(flow.calls) >= 9
    /\ flow.inflight = {}

\* C28: a run of auto-post-daily.ts makes at most one call to the source
\* platform, the timeline fetch, and it is the first call of the run; no call
\* to the source follows thread detection.
C28_OneSourceCallPerTweetRun ==
    script = "tweet" =>
       /\ Cardinality({i \in DOMAIN flow.calls : flow.calls[i] = "source"}) <= 1
       /\ \A i \in DOMAIN flow.calls : flow.calls[i] = "source" => i = 1

\* a run on a thread that summarized, normalized and minted
C28_Witness ==
    /\ script = "tweet"
    /\ flow.isThread
    /\ flow.pc = "done"
    /\ flow.calls = <<"source", "ai", "ai", "upload", "mint">>

\* the errors the try block of main throws before the run log is written
FatalErrors == {"fetch", "novalid", "already", "download", "mkdir", "mint"}

\* C25: a run that ended on a fatal condition (source fetch error, no eligible
\* candidate, acquisition failed, minting failure) has appended a FAILED entry
\* to the run log and exited with a non-zero status.
C25_FatalLogsAndExitsNonZero ==
    \A r \in Runs :
       run[r].pc = "exited" /\ run[r].err \in FatalErrors =>
          /\ run[r].logged = <<"FAILED">>
          /\ run[r].exit = "1"

\* C27: when no ledger file exists, the load step of a run in latest mode gives
\* the empty set and the run goes on to the fetch, with no error.
C27_NoLedgerLoadsEmpty ==
    [][\A r \in Runs :
          run[r].pc = "load" /\ run'[r].pc # "load" /\ ledger = NoFile =>
             /\ run'[r].alreadyPosted = {}
             /\ run'[r].pc = "fetch"
             /\ run'[r].err = "none"]_vars

\* a run in latest mode that found no ledger file, minted and recorded its item
C27_Witness ==
    /\ run[1].startLedger = NoFile
    /\ run[1].arg = NoArg
    /\ run[1].alreadyPosted = {}
    /\ run[1].pc = "done"
    /\ run[1].saved

\* C29: a run makes at most one minting call and writes the ledger at most
\* once; a successful mint of a run in latest mode adds the target of the run
\* and nothing else to the minted items, and a ledger write that succeeds
\* appends a record of that same target.
C29_OneItemPerRun ==
    /\ [](\A r \in Runs : run[r].mintCalls <= 1 /\ run[r].saveCalls <= 1)
    /\ [][ /\ minted' # minted =>
                \E r \in Runs : /\ run[r].pc = "mint"
                                 /\ run'[r].target = run[r].target
                                 /\ minted' = minted \cup {run[r].target}
           /\ ledger' # ledger =>
                \E q \in Runs : /\ run[q].pc = "save_write"
                                 /\ run[q].mintCalls = 1
                                 /\ run[q].target \in minted
                                 /\ ledger'.kind = "json" =>
                                       Last(ledger'.records).id = run[q].target ]_vars

\* a run that minted its item and recorded it
C29_Witness ==
    /\ run[1].pc = "done"
    /\ run[1].mintCalls = 1
    /\ run[1].saveCalls = 1
    /\ run[1].saved
    /\ run[1].target \in minted
    /\ Last(ledger.records).id = run[1].target

\* C26: with two overlapping runs the ledger write of a run stores what that
\* run read earlier plus its own record: every id another run recorded between
\* the read and the write is gone from the ledger after the write (the update
\* is lost), also when the ledger is below capacity.
C26_WriteOverwritesWithStaleRead ==
    [][\A r \in Runs :
          run[r].pc = "save_write" /\ run'[r].pc = "log" /\ run'[r].saved =>
             /\ LedgerIds(ledger') \subseteq
                   Ids(run[r].records) \cup {run[r].target}
             /\ \A id \in LedgerIds(ledger) \ (Ids(run[r].records) \cup {run[r].target}) :
                   id \notin LedgerIds(ledger')]_vars

\* both runs have completed record for distinct ids, the ledger is below
\* capacity, and only one of the two ids is in the ledger
C26_Witness ==
    /\ run[1].pc = "done" /\ run[1].saved
    /\ run[2].pc = "done" /\ run[2].saved
    /\ run[1].target # run[2].target
    /\ ledger.kind = "json"
    /\ Len(ledger.records) < Keep(script)
    /\ Cardinality(LedgerIds(ledger) \cap {run[1].target, run[2].target}) = 1

\* the filters as the claim lists them
NotReplyToOtherUser(kind) == kind.prefix # "@other"
NotRetweet(kind) == kind.prefix # "RT @" /\ "retweeted" \notin kind.refs
NotQuote(kind) == "quoted" \notin kind.refs
HasNoVideoOrGif(kind) ==
    \A i \in DOMAIN kind.media : kind.media[i] \notin {"video", "animated_gif"}
\* the photo of the item (the first one of its media) has a url
HasPhotoWithUrl(kind) ==
    /\ kind.keys
    /\ \E i \in DOMAIN kind.media :
          /\ kind.media[i] = "photo"
          /\ \A j \in 1..(i - 1) : kind.media[j] \notin {"photo", "photo_nourl"}

PassesEveryFilter(posted, post) ==
    /\ post.id \notin posted
    /\ NotReplyToOtherUser(post.kind)
    /\ NotRetweet(post.kind)
    /\ NotQuote(post.kind)
    /\ HasPhotoWithUrl(post.kind)
    /\ HasNoVideoOrGif(post.kind)

\* C30: getLatestImagePost returns the first item in fetch order that passes
\* every filter (not in the loaded dedup set, not a reply to another user, not
\* a retweet, not a quote, has a photo with a url, has no video or GIF); the
\* item it returns is never in the dedup set; it throws when no item passes.
C30_FirstItemPassingEveryFilter ==
    source.fn = "getLatestImagePost" =>
       LET passing == {i \in DOMAIN source.posts :
                          PassesEveryFilter(source.alreadyPosted, source.posts[i])}
       IN  IF passing = {}
           THEN source.threw /\ source.out = 0
           ELSE /\ ~source.threw
                /\ source.out \in passing
                /\ \A i \in passing : source.out <= i
                /\ source.posts[source.out].id \notin source.alreadyPosted

\* the call skipped an item of the dedup set that passes the other filters and
\* returned the item after it
C30_Witness ==
    /\ source.fn = "getLatestImagePost"
    /\ Len(source.posts) = 2
    /\ source.posts[1].id \in source.alreadyPosted
    /\ Skip(source.posts[1].kind) = "none"
    /\ source.out = 2

\* the positions of the window that hold an item of the conversation of tweet
SameConversation(tweet, window) ==
    {i \in DOMAIN window : window[i].conv = tweet.conv}

\* a thread member: it refers to a tweet it replies to, or its conversation
\* id is not its own id
IsMember(tweet) ==
    (tweet.refs.present /\ "replied_to" \in tweet.refs.types) \/ tweet.conv # tweet.id

\* C31: processTwitterContent calls summarizeThread (once) exactly when the
\* candidate is a thread member and the window holds two or more items of its
\* conversation; otherwise it normalizes the raw text of the candidate with
\* one call of cleanAndOptimizeContent, does not summarize, and returns the
\* candidate's own id.
C31_SummarizeIffMemberOfSeveral ==
    thread.fn = "process" =>
       LET several == /\ IsMember(thread.tweet)
                      /\ Cardinality(SameConversation(thread.tweet, thread.window)) >= 2
       IN  /\ thread.summarizeCalls = (IF several THEN 1 ELSE 0)
           /\ thread.normalizeCalls = 1
           /\ several => thread.normalized = "summary"
           /\ ~several => /\ thread.normalized = "text"
                           /\ thread.summarized = <<>>
                           /\ thread.firstTweetId = thread.tweet.id

\* a thread member that is alone of its conversation in a window of several
\* items was processed as a single item
C31_Witness ==
    /\ thread.fn = "process"
    /\ IsMember(thread.tweet)
    /\ Len(thread.window) >= 2
    /\ Cardinality(SameConversation(thread.tweet, thread.window)) = 1
    /\ thread.summarizeCalls = 0
    /\ thread.normalizeCalls = 1

\* C32: the array reconstruct returns is a permutation of the window items of
\* the candidate's conversation (none added, none dropped, none twice), and
\* the call leaves the window as it was, in content and in order.
C32_PermutationOfConversation ==
    /\ [](thread.fn = "reconstruct" =>
            LET same == SameConversation(thread.tweet, thread.window)
            IN  /\ Len(thread.out) = Cardinality(same)
                /\ \A i \in same : \E k \in DOMAIN thread.out :
                                        thread.out[k] = thread.window[i]
                /\ \A k \in DOMAIN thread.out : \E i \in same :
                                        thread.out[k] = thread.window[i])
    /\ [][thread'.fn = "reconstruct" => thread'.window = thread.window]_vars

\* a conversation of several items, out of time order in the window, among
\* items of another conversation
C32_Witness ==
    /\ thread.fn = "reconstruct"
    /\ Len(thread.out) >= 2
    /\ Len(thread.out) < Len(thread.window)
    /\ \E i, j \in DOMAIN thread.window :
          /\ i < j
          /\ thread.window[i].conv = thread.tweet.conv
          /\ thread.window[j].conv = thread.tweet.conv
          /\ thread.window[j].at < thread.window[i].at

\* C33: a call of record on a ledger that holds fewer than K records keeps
\* every id the ledger held before the call.
C33_RecordPreservesHistory ==
    [][(store'.op = "record" /\ ledger' # ledger
          /\ Len(SaveRead(ledger)) < Keep(script)) =>
            LedgerIds(ledger) \subseteq LedgerIds(ledger')]_vars

C35_SuccessMeansRecorded ==
    \A r \in Runs :
       (/\ run[r].pc = "done"
        /\ run[r].arg = NoArg
        /\ run[r].logged = <<"SUCCESS">>
        /\ run[r].exit = "0") => run[r].target \in LedgerIds(ledger)

\* C36: a run that has ended has appended exactly one entry to the run log,
\* SUCCESS if the minting call succeeded and FAILED if not, and its exit
\* status is zero exactly when the entry is SUCCESS.
C36_OneLogEntryMatchingOutcome ==
    \A r \in Runs :
       run[r].pc \in {"done", "exited"} =>
          /\ Len(run[r].logged) = 1
          /\ run[r].logged[1] = "SUCCESS" <=> run[r].tx = Tx
          /\ run[r].logged[1] = "FAILED" <=> run[r].tx # Tx
          /\ run[r].exit = "0" <=> run[r].logged[1] = "SUCCESS"

\* C37: tryDownloadWithFormat resolves only when the downloader exited with
\* code zero and a video file and a thumbnail file of the item are in the
\* directory: <id>.mp4 and <id>.jpg when both are there, files the scan finds
\* otherwise; the paths it returns are files of the item; with a non-zero exit
\* code it rejects whatever the directory holds (here: every directory content
\* the runs produce).
C37_StrategySucceedsOnlyWithFiles ==
    /\ [](\A id \in VideoIds :
            /\ tryDownloadWithFormat(id, disk, 1) = {Reject}
            /\ \A res \in tryDownloadWithFormat(id, disk, 0) :
                  res.ok => /\ <<id, res.videoPath>> \in disk
                            /\ <<id, res.thumbnailPath>> \in disk)
    /\ [][\A r \in Runs :
            (run[r].pc = "download" /\ run'[r].pc = "mint") =>
               /\ run'[r].videoPath \in VideoSuffixes
               /\ run'[r].thumbnailPath = "jpg"
               /\ <<run[r].target, run'[r].videoPath>> \in disk'
               /\ <<run[r].target, run'[r].thumbnailPath>> \in disk'
               /\ <<run[r].target, "mp4">> \in disk' => run'[r].videoPath = "mp4"]_vars

\* the second strategy succeeded through the directory scan: no <id>.mp4
C37_Witness ==
    \E r \in Runs :
       /\ run[r].pc = "mint"
       /\ run[r].dlCalls = 2
       /\ run[r].videoPath = "webm"
       /\ run[r].thumbnailPath = "jpg"
       /\ <<run[r].target, "mp4">> \notin disk

DownloaderCalls == {i \in DOMAIN flow.calls : flow.calls[i] = "downloader"}

\* C38: when main() goes on whenever it can and every external call
\* eventually returns or fails, the run eventually ends, with success or with
\* failure; and it starts the downloader at most once per strategy, five
\* times at most.
C38_RunTerminates ==
    /\ <>(flow.pc \in {"done", "failed"})
    /\ [](Cardinality(DownloaderCalls) <= NumStrategies)

\* every strategy was tried and failed, and the run has ended
C38_Witness ==
    /\ script = "video"
    /\ flow.pc = "failed"
    /\ flow.inflight = {}
    /\ Cardinality(DownloaderCalls) = NumStrategies

\* C39: with two overlapping runs each run checks its candidate against the
\* set it loaded at its own start and never loads again: the item a fetch
\* returns is outside that set, whatever the ledger holds by then, and the set
\* is the same from the load to the end of the run.
C39_CheckedAgainstOwnSnapshot ==
    [][\A r \in Runs :
          /\ (run[r].pc = "fetch" /\ run'[r].pc = "process") =>
                run'[r].target \notin run[r].alreadyPosted
          /\ run[r].pc \notin {"idle", "load"} =>
                run'[r].alreadyPosted = run[r].alreadyPosted]_vars

\* both runs have minted the same item and the ledger holds two records of it
C39_Witness ==
    /\ run[1].pc = "done" /\ run[1].tx = Tx
    /\ run[2].pc = "done" /\ run[2].tx = Tx
    /\ run[1].target = run[2].target
    /\ ledger.kind = "json"
    /\ Cardinality({i \in DOMAIN ledger.records :
                       ledger.records[i].id = run[1].target}) = 2

====
